---------------------------- MODULE Spec2Model ----------------------------
(***************************************************************************)
(* Managed pointer (Gc<T> / GcBox<T>) and collector adapter (GcAllocator). *)
(* library/alloc/src/gc.rs and library/boehm/src/lib.rs as state machines. *)
(***************************************************************************)
EXTENDS Integers, Sequences, FiniteSets, TLC

(* ------------------------------ bounds --------------------------------- *)
MaxBoxes == 1
MaxHandles == 2
MaxRegCalls == 2
MaxTypeDepth == 2
BlockStride == 64
MaxBlocks == 1

(* size_of::<usize>() on the 64-bit target: the unit of base_ptr.add(1) *)
WordSize == 8

(* ------------------------------- types --------------------------------- *)
(* A type is the sequence of its constructors, outermost first, ending in *)
(* a base type: <<"Vec", "Box", "HasDrop">> is Vec<Box<HasDrop>>.         *)
BaseTypes == {"usize", "HasDrop", "HasDropManageable"}
Wrappers == {"Vec", "Box"}

RECURSIVE TypesOfDepth(_)
TypesOfDepth(n) ==
    IF n = 0 THEN {<<b>> : b \in BaseTypes}
    ELSE {<<w>> \o t : w \in Wrappers, t \in TypesOfDepth(n - 1)}

Types == UNION {TypesOfDepth(n) : n \in 0..MaxTypeDepth}

MaybeUninit(t) == <<"MaybeUninit">> \o t

(* mem::needs_drop::<T>(): T has drop glue. Vec and Box own a heap buffer, *)
(* MaybeUninit<T> never drops its contents, HasDrop* implement Drop.       *)
MemNeedsDrop(t) ==
    CASE t[1] \in {"Vec", "Box"} -> TRUE
      [] t[1] = "MaybeUninit" -> FALSE
      [] t[1] \in {"HasDrop", "HasDropManageable"} -> TRUE
      [] OTHER -> FALSE

(* T: ManageableContents. The trait has no blanket or container impl; a   *)
(* type implements it only by an explicit impl.                            *)
ManageableContents(t) == t = <<"HasDropManageable">>

(* <GcBox<T> as IsManageableContents>::is_manageable_contents() *)
IsManageableContents(t) ==
    IF t[1] = "Vec" THEN ManageableContents(Tail(t)) ELSE FALSE

(* <GcBox<T> as NeedsDrop>::needs_drop() *)
NeedsDrop(t) ==
    IF t[1] = "Vec" THEN MemNeedsDrop(Tail(t)) ELSE MemNeedsDrop(t)

(* the condition under which GcBox::new registers a finalizer *)
NeedsFinalizer(t) == ~IsManageableContents(t) /\ NeedsDrop(t)

(* Layout::new::<T>() *)
SizeOf(t) ==
    CASE t[1] = "Vec" -> 3 * WordSize
      [] t[1] = "Box" -> WordSize
      [] t[1] = "usize" -> WordSize
      [] OTHER -> 0

AlignOf(t) ==
    CASE t[1] \in {"Vec", "Box", "usize"} -> WordSize
      [] OTHER -> 1

LayoutOf(t) == [size |-> SizeOf(t), align |-> AlignOf(t)]

LayoutSizes == {0, WordSize}
LayoutAligns == {1, WordSize}
Layouts == [size : LayoutSizes, align : LayoutAligns]

(* the types the lifecycle specification allocates *)
LifeTypes == {<<"usize">>, <<"HasDrop">>}

(* ------------------------------- state --------------------------------- *)
VARIABLES
    heap,      \* box id -> the block the backend allocated for it, or NoBox
    fin,       \* backend finalizer table: set of [obj, shim] registrations
    handles,   \* [ptr, kind] -> number of live Gc handles with that value
    raws,      \* raw pointers exported by into_raw: set of [ptr, kind]
    blocks,    \* block id -> a block handed out by the GcAllocator adapter
    last       \* what the last operation returned

vars == <<heap, fin, handles, raws, blocks, last>>

Boxes == 1..MaxBoxes
NoBox == [state |-> "none"]
Kinds == {"typed", "uninit", "dyn"}

Base(b) == b * BlockStride
PtrAddrs == {Base(b) + o : b \in Boxes, o \in {0, WordSize}}
HandleVals == [ptr : PtrAddrs, kind : Kinds]

(* the box whose block holds address a *)
BoxAt(a) == CHOOSE b \in Boxes : Base(b) <= a /\ a < Base(b) + BlockStride

Allocated(b) == heap[b].state # "none"
Live(b) == heap[b].state = "live"
FreeBoxes == {b \in Boxes : ~Allocated(b)}

NoCall == [op |-> "none"]

BlockIds == 1..MaxBlocks
NoBlock == [state |-> "none"]

Init ==
    /\ heap = [b \in Boxes |-> NoBox]
    /\ fin = {}
    /\ handles = [h \in HandleVals |-> 0]
    /\ raws = {}
    /\ blocks = [k \in BlockIds |-> NoBlock]
    /\ last = NoCall


(* --------------------------- collector backend ------------------------- *)
(* gc_register_finalizer(obj, fshim::<T>, null, null, null): the backend   *)
(* keeps one registration per object address; a new one replaces the old.  *)
GC_register_finalizer(table, obj, shim) ==
    {e \in table : e.obj # obj} \cup {[obj |-> obj, shim |-> shim]}

(* BoehmGcAllocator.alloc(layout): a fresh collectable block of that size *)
NewBlock(t, size, off, init) ==
    [state |-> "live", ty |-> t, size |-> size, off |-> off, init |-> init,
     assumed |-> FALSE, regCalls |-> 0, fired |-> 0, dropped |-> 0]

(* the conservative scan: a handle or raw pointer anywhere into a block    *)
(* keeps the block reachable                                               *)
Rooted(b) ==
    \/ \E h \in HandleVals : handles[h] > 0 /\ BoxAt(h.ptr) = b
    \/ \E r \in raws : BoxAt(r.ptr) = b

Unreachable == {b \in Boxes : Live(b) /\ ~Rooted(b)}

(* fshim::<T>(obj, _): ManuallyDrop::drop(&mut *(obj as *mut ManuallyDrop<T>)) *)
(* applied to the box: T's drop glue runs iff T has any                    *)
fshim(shim, box) ==
    [box EXCEPT !.fired = @ + 1,
                !.dropped = IF MemNeedsDrop(shim) THEN @ + 1 ELSE @]

(* ------------------------------ GcBox ---------------------------------- *)
(* GcBox::register_finalizer(&mut self) with Self = GcBox<T> *)
GcBox_register_finalizer(table, self, t) == GC_register_finalizer(table, self, t)

GcBox_new_always(b, t) ==
    /\ heap' = [heap EXCEPT ![b] =
                  [NewBlock(t, SizeOf(t), 0, TRUE) EXCEPT !.regCalls = 1]]
    /\ fin' = GcBox_register_finalizer(fin, Base(b), t)

(* GcBox::new(value): allocate, copy the value in, register if needed *)
GcBox_new(b, t) ==
    LET ptr == Base(b)
        reg == ~IsManageableContents(t) /\ NeedsDrop(t)
    IN /\ heap' = [heap EXCEPT ![b] =
                     [NewBlock(t, SizeOf(t), 0, TRUE)
                        EXCEPT !.regCalls = IF reg THEN 1 ELSE 0]]
       /\ fin' = IF reg THEN GcBox_register_finalizer(fin, ptr, t) ELSE fin

GcBox_new_from_layout_registers(b, t, layout) ==
    /\ heap' = [heap EXCEPT ![b] =
                  [NewBlock(t, layout.size, WordSize, FALSE) EXCEPT !.regCalls = 1]]
    /\ fin' = GcBox_register_finalizer(fin, Base(b) + WordSize, MaybeUninit(t))

(* GcBox::new_from_layout(layout): base_ptr.add(1) of a block of layout.size *)
GcBox_new_from_layout(b, t, layout) ==
    /\ heap' = [heap EXCEPT ![b] = NewBlock(t, layout.size, WordSize, FALSE)]
    /\ fin' = fin

(* GcBox<MaybeUninit<T>>::assume_init(&mut self): self.register_finalizer() *)
(* resolves to GcBox::<MaybeUninit<T>>::register_finalizer                 *)
GcBox_assume_init(b, self) ==
    /\ heap' = [heap EXCEPT ![b].regCalls = @ + 1, ![b].assumed = TRUE]
    /\ fin' = GcBox_register_finalizer(fin, self, MaybeUninit(heap[b].ty))

(* BoehmGcAllocator.alloc(layout): the backend either hands out a block or *)
(* fails; a failure is an Err (or ends the process inside the call)        *)
BoehmGcAllocator_alloc(exhausted) == IF exhausted THEN "Err" ELSE "Ok"

(* BoehmGcAllocator.alloc(layout).unwrap() on an Err: the panic leaves     *)
(* GcBox::new / GcBox::new_from_layout before any pointer is formed        *)
unwrap_Err ==
    /\ last' = [op |-> "alloc_failure"]
    /\ UNCHANGED <<heap, fin, handles, raws, blocks>>

(* -------------------------------- Gc ----------------------------------- *)
H(ptr, kind) == [ptr |-> ptr, kind |-> kind]
RECURSIVE Sum(_)
Sum(S) == IF S = {} THEN 0
          ELSE LET x == CHOOSE x \in S : TRUE
               IN handles[x] + Sum(S \ {x})

(* the live handles to box b; all live handles and exported raw pointers *)
Copies(b) == Sum({h \in HandleVals : BoxAt(h.ptr) = b})
LiveHandles == Sum(HandleVals) + Cardinality(raws)

(* Gc::new(v) *)
Gc_new(t) ==
    /\ FreeBoxes # {} /\ LiveHandles < MaxHandles
    /\ \E exhausted \in BOOLEAN :
        IF BoehmGcAllocator_alloc(exhausted) = "Err" THEN unwrap_Err
        ELSE /\ LET b == CHOOSE b \in FreeBoxes : \A c \in FreeBoxes : b <= c
                IN /\ GcBox_new(b, t)
                   /\ handles' = [handles EXCEPT ![H(Base(b), "typed")] = 1]
                   /\ last' = NoCall
             /\ UNCHANGED <<raws, blocks>>

LayoutTooSmall_size_only(layout, tl) == layout.size < tl.size

(* the test at the head of Gc::new_from_layout *)
LayoutTooSmall(layout, tl) == layout.size < tl.size \/ layout.align < tl.align

(* Gc::new_from_layout_unchecked(layout) *)
Gc_new_from_layout_unchecked(t, layout) ==
    /\ FreeBoxes # {} /\ LiveHandles < MaxHandles
    /\ \E exhausted \in BOOLEAN :
        IF BoehmGcAllocator_alloc(exhausted) = "Err" THEN unwrap_Err
        ELSE /\ LET b == CHOOSE b \in FreeBoxes : \A c \in FreeBoxes : b <= c
                IN /\ GcBox_new_from_layout(b, t, layout)
                   /\ handles' = [handles EXCEPT
                                     ![H(Base(b) + WordSize, "uninit")] = 1]
                   /\ last' = [op |-> "new_from_layout", panicked |-> FALSE]
             /\ UNCHANGED <<raws, blocks>>

(* Gc::new_from_layout(layout) *)
Gc_new_from_layout(t, layout) ==
    IF LayoutTooSmall(layout, LayoutOf(t))
    THEN /\ last' = [op |-> "new_from_layout", panicked |-> TRUE]
         /\ UNCHANGED <<heap, fin, handles, raws, blocks>>
    ELSE Gc_new_from_layout_unchecked(t, layout)

(* Gc<MaybeUninit<T>>::assume_init(self); the caller has initialized the value *)
Gc_assume_init(h) ==
    /\ h.kind = "uninit" /\ handles[h] > 0
    /\ LET b == BoxAt(h.ptr)
       IN /\ heap[b].init
          /\ heap[b].regCalls < MaxRegCalls
          /\ GcBox_assume_init(b, h.ptr)
          /\ handles' = [handles EXCEPT ![h] = @ - 1,
                                        ![H(h.ptr, "typed")] = @ + 1]
          /\ last' = NoCall
    /\ UNCHANGED <<raws, blocks>>

(* impl Copy / Clone for Gc<T>: *self *)
Gc_clone(h) ==
    /\ handles[h] > 0 /\ LiveHandles < MaxHandles
    /\ handles' = [handles EXCEPT ![h] = @ + 1]
    /\ last' = NoCall
    /\ UNCHANGED <<heap, fin, raws, blocks>>

Gc_drop_runs_destructor(h) ==
    /\ handles[h] > 0
    /\ handles' = [handles EXCEPT ![h] = @ - 1]
    /\ heap' = [heap EXCEPT ![BoxAt(h.ptr)].dropped =
                   IF MemNeedsDrop(heap[BoxAt(h.ptr)].ty) THEN 1 ELSE @]
    /\ last' = NoCall
    /\ UNCHANGED <<fin, raws, blocks>>

(* a handle goes out of scope: Gc has no Drop impl and GcBox holds its    *)
(* value in ManuallyDrop, so nothing runs                                  *)
Gc_drop(h) ==
    /\ handles[h] > 0
    /\ handles' = [handles EXCEPT ![h] = @ - 1]
    /\ heap' = heap
    /\ last' = NoCall
    /\ UNCHANGED <<fin, raws, blocks>>

(* Gc::into_raw(this) *)
Gc_into_raw(h) ==
    /\ handles[h] > 0
    /\ h \notin raws
    /\ handles' = [handles EXCEPT ![h] = @ - 1]
    /\ raws' = raws \cup {H(h.ptr, h.kind)}
    /\ last' = NoCall
    /\ UNCHANGED <<heap, fin, blocks>>

(* Gc::from_raw(raw): raw came from into_raw; `raw as *const dyn Any` is   *)
(* the unsizing cast that yields a Gc<dyn Any>                             *)
Gc_from_raw(r, kind) ==
    /\ r \in raws
    /\ kind = r.kind \/ (kind = "dyn" /\ r.kind = "typed")
    /\ handles' = [handles EXCEPT ![H(r.ptr, kind)] = @ + 1]
    /\ raws' = raws \ {r}
    /\ last' = NoCall
    /\ UNCHANGED <<heap, fin, blocks>>

(* Gc::ptr_eq(this, other) *)
Gc_ptr_eq(this, other) == this.ptr = other.ptr

Is_any(h, t) == TRUE

(* self.is::<T>() on a Gc<dyn Any>: the referent's dynamic type is T *)
Is(h, t) == heap[BoxAt(h.ptr)].ty = t

(* Gc<dyn Any>::downcast::<T>(&self) *)
Gc_downcast(h, t) ==
    /\ h.kind = "dyn" /\ handles[h] > 0
    /\ LET out == IF Is(h, t) THEN H(h.ptr, "typed") ELSE H(h.ptr, "dyn")
       IN /\ LiveHandles < MaxHandles
          /\ handles' = [handles EXCEPT ![out] = @ + 1]
          /\ last' = [op |-> "downcast", self |-> h, ok |-> Is(h, t),
                      out |-> out]
    /\ UNCHANGED <<heap, fin, raws, blocks>>

(* <Gc<T> as Deref>::deref(&self): &T *)
Gc_deref(h) ==
    /\ handles[h] > 0
    /\ last' = [op |-> "deref", access |-> "shared"]
    /\ UNCHANGED <<heap, fin, handles, raws, blocks>>

(* <Gc<T> as DerefMut>::deref_mut(&mut self): &mut T, through which the   *)
(* holder writes the referent (for a Gc<MaybeUninit<T>>, initializes it)   *)
Gc_deref_mut(h) ==
    /\ handles[h] > 0
    /\ heap' = [heap EXCEPT ![BoxAt(h.ptr)].init = TRUE]
    /\ last' = [op |-> "deref_mut", access |-> "mut",
                copies |-> Copies(BoxAt(h.ptr))]
    /\ UNCHANGED <<fin, handles, raws, blocks>>

(* --------------------------- GcAllocator ------------------------------- *)
Apis == {"GlobalAlloc", "Allocator"}
Classes == {"collectable", "untraceable", "conservative", "precise"}
NoDesc == {}

(* backend entry points: does the collector scan the block's contents, and *)
(* does it reclaim the block once unreachable                              *)
Scanned(entry) == entry \in {"GC_malloc", "GC_malloc_uncollectable"}
Collectable(entry) ==
    entry \in {"GC_malloc", "GC_malloc_atomic", "GC_malloc_explicitly_typed"}

(* GC_make_descriptor(bitmap, len): the word offsets among the first len   *)
(* whose bit is set in the bitmap hold pointers                            *)
GC_make_descriptor(bitmap, len) ==
    {i \in 0..(len - 1) : (bitmap \div (2 ^ i)) % 2 = 1}

(* impl GlobalAlloc for GcAllocator *)
GlobalAlloc_alloc == "GC_malloc_uncollectable"
GlobalAlloc_alloc_precise == "unimplemented"
GlobalAlloc_alloc_conservative == "GC_malloc_uncollectable"
GlobalAlloc_alloc_untraceable == "GC_malloc_atomic_uncollectable"

Allocator_alloc_untraceable_scanned == "GC_malloc"

(* impl Allocator for GcAllocator *)
Allocator_allocate == "GC_malloc"
Allocator_alloc_untraceable == "GC_malloc_atomic"
Allocator_alloc_conservative == "GC_malloc"
Allocator_alloc_precise == "GC_malloc_explicitly_typed"

(* the backend entry point the adapter calls for a request *)
EntryPoint(api, class) ==
    IF api = "GlobalAlloc"
    THEN CASE class = "collectable" -> GlobalAlloc_alloc
           [] class = "untraceable" -> GlobalAlloc_alloc_untraceable
           [] class = "conservative" -> GlobalAlloc_alloc_conservative
           [] class = "precise" -> GlobalAlloc_alloc_precise
    ELSE CASE class = "collectable" -> Allocator_allocate
           [] class = "untraceable" -> Allocator_alloc_untraceable
           [] class = "conservative" -> Allocator_alloc_conservative
           [] class = "precise" -> Allocator_alloc_precise

(* the descriptor Allocator::alloc_precise hands to the backend *)
PreciseDescriptor(bitmap, bitmap_size) == GC_make_descriptor(bitmap, bitmap_size)

FreeBlocks == {k \in BlockIds : blocks[k].state = "none"}
LiveBlock(k) == blocks[k].state = "live"

(* what a trait method makes of a null block from its entry point: the     *)
(* GlobalAlloc methods return the pointer as it is; the Allocator methods  *)
(* pass it to NonNull::new_unchecked, which is undefined for null: the     *)
(* build either wraps the null in Ok or traps                              *)
NullResults(api) ==
    IF api = "GlobalAlloc" THEN {"null"} ELSE {"Ok(null)", "abort"}

(* one allocation request of the given class through either trait impl;   *)
(* the caller keeps the returned pointer. null: the entry point returned   *)
(* a null block                                                            *)
GcAllocator_alloc(api, class, bitmap, bitmap_size, null) ==
    LET entry == EntryPoint(api, class)
    IN IF entry = "unimplemented"
       THEN /\ ~null
            /\ last' = [op |-> "alloc", api |-> api, class |-> class,
                        panicked |-> TRUE, null |-> FALSE, result |-> "panic"]
            /\ UNCHANGED <<heap, fin, handles, raws, blocks>>
       ELSE IF null
       THEN /\ \E r \in NullResults(api) :
                  last' = [op |-> "alloc", api |-> api, class |-> class,
                           panicked |-> FALSE, null |-> TRUE, result |-> r]
            /\ UNCHANGED <<heap, fin, handles, raws, blocks>>
       ELSE /\ FreeBlocks # {}
            /\ LET k == CHOOSE k \in FreeBlocks : \A j \in FreeBlocks : k <= j
               IN blocks' = [blocks EXCEPT ![k] =
                    [state |-> "live", api |-> api, class |-> class,
                     entry |-> entry, bitmap |-> bitmap, len |-> bitmap_size,
                     desc |-> IF entry = "GC_malloc_explicitly_typed"
                              THEN PreciseDescriptor(bitmap, bitmap_size)
                              ELSE NoDesc,
                     ref |-> 0, rooted |-> TRUE]]
            /\ last' = [op |-> "alloc", api |-> api, class |-> class,
                        panicked |-> FALSE, null |-> FALSE, result |-> "block"]
            /\ UNCHANGED <<heap, fin, handles, raws>>

(* the mutator stores a pointer to block j in word 0 of block k *)
StorePtr(k, j) ==
    /\ LiveBlock(k) /\ blocks[k].rooted
    /\ LiveBlock(j) /\ blocks[j].rooted
    /\ blocks' = [blocks EXCEPT ![k].ref = j]
    /\ last' = NoCall
    /\ UNCHANGED <<heap, fin, handles, raws>>

(* the mutator forgets its own pointer to block k *)
ForgetPtr(k) ==
    /\ LiveBlock(k) /\ blocks[k].rooted
    /\ blocks' = [blocks EXCEPT ![k].rooted = FALSE]
    /\ last' = NoCall
    /\ UNCHANGED <<heap, fin, handles, raws>>

(* <GcAllocator as GlobalAlloc>::dealloc(ptr, _): GC_free(ptr) *)
GlobalAlloc_dealloc(k) ==
    /\ LiveBlock(k) /\ blocks[k].rooted /\ blocks[k].api = "GlobalAlloc"
    /\ blocks' = [blocks EXCEPT ![k].state = "freed", ![k].rooted = FALSE]
    /\ last' = NoCall
    /\ UNCHANGED <<heap, fin, handles, raws>>

(* <GcAllocator as Allocator>::deallocate(_, _): empty body *)
Allocator_deallocate(k) ==
    /\ LiveBlock(k) /\ blocks[k].rooted /\ blocks[k].api = "Allocator"
    /\ last' = [op |-> "deallocate"]
    /\ UNCHANGED <<heap, fin, handles, raws, blocks>>

(* the words of block k the collector reads as pointers *)
ScannedWords(k) ==
    IF blocks[k].entry = "GC_malloc_explicitly_typed" THEN blocks[k].desc
    ELSE IF Scanned(blocks[k].entry) THEN {0} ELSE {}

(* marking: from the mutator's pointers and the uncollectable blocks,     *)
(* through the scanned words                                               *)
MarkRoots ==
    {k \in BlockIds : LiveBlock(k)
                      /\ (blocks[k].rooted \/ ~Collectable(blocks[k].entry))}

RECURSIVE Mark(_, _)
Mark(R, n) ==
    IF n = 0 THEN R
    ELSE Mark(R \cup {blocks[k].ref : k \in {j \in R : 0 \in ScannedWords(j)
                                                     /\ blocks[j].ref # 0
                                                     /\ LiveBlock(blocks[j].ref)}},
              n - 1)

Marked == Mark(MarkRoots, MaxBlocks)

(* sweeping: live blocks of a collectable kind that were not marked *)
GC_gcollect_blocks ==
    blocks' = [k \in BlockIds |->
                 IF LiveBlock(k) /\ Collectable(blocks[k].entry) /\ k \notin Marked
                 THEN [blocks[k] EXCEPT !.state = "reclaimed"]
                 ELSE blocks[k]]

(* ----------------------------- collection ------------------------------ *)
(* GC_gcollect(): one full cycle. The registration of every unreachable    *)
(* block is removed and its callback invoked with the registered address;  *)
(* an unreachable block with no registration is reclaimed.                 *)
GC_gcollect ==
    LET due == {e \in fin : BoxAt(e.obj) \in Unreachable}
        Run(b) == IF \E e \in due : BoxAt(e.obj) = b
                  THEN fshim((CHOOSE e \in due : BoxAt(e.obj) = b).shim, heap[b])
                  ELSE heap[b]
        Sweep(b, box) ==
            IF /\ b \in Unreachable
               /\ ~\E e \in fin : BoxAt(e.obj) = b
            THEN [box EXCEPT !.state = "reclaimed"]
            ELSE box
    IN /\ heap' = [b \in Boxes |-> Sweep(b, Run(b))]
       /\ fin' = fin \ due

(* GcAllocator::force_gc() *)
force_gc ==
    /\ GC_gcollect
    /\ GC_gcollect_blocks
    /\ last' = NoCall
    /\ UNCHANGED <<handles, raws>>

Next ==
    \/ \E t \in LifeTypes : Gc_new(t)
    \/ \E t \in LifeTypes, l \in Layouts : Gc_new_from_layout(t, l)
    \/ \E t \in LifeTypes, l \in Layouts :
          ~LayoutTooSmall(l, LayoutOf(t)) /\ Gc_new_from_layout_unchecked(t, l)
    \/ \E h \in HandleVals : Gc_assume_init(h)
    \/ \E h \in HandleVals : Gc_clone(h)
    \/ \E h \in HandleVals : Gc_drop(h)
    \/ \E h \in HandleVals : Gc_into_raw(h)
    \/ \E r \in HandleVals, k \in Kinds : Gc_from_raw(r, k)
    \/ \E h \in HandleVals, t \in LifeTypes : Gc_downcast(h, t)
    \/ \E h \in HandleVals : Gc_deref(h)
    \/ \E h \in HandleVals : Gc_deref_mut(h)
    \/ force_gc

Spec == Init /\ [][Next]_vars

(* the finalizer decision over every type of the universe *)
DecideNext ==
    \/ \E t \in Types : Gc_new(t)
    \/ \E h \in HandleVals : Gc_clone(h)
    \/ \E h \in HandleVals : Gc_drop(h)
    \/ force_gc

DecideSpec == Init /\ [][DecideNext]_vars

(* the adapter's allocation classes under collection *)
Bitmaps == 0..1
BitmapSizes == 0..1

AdapterNext ==
    \/ \E a \in Apis, c \in Classes \ {"precise"}, null \in BOOLEAN :
          GcAllocator_alloc(a, c, 0, 0, null)
    \/ \E a \in Apis, bm \in Bitmaps, n \in BitmapSizes, null \in BOOLEAN :
          GcAllocator_alloc(a, "precise", bm, n, null)
    \/ \E k \in BlockIds, j \in BlockIds : StorePtr(k, j)
    \/ \E k \in BlockIds : ForgetPtr(k)
    \/ \E k \in BlockIds : GlobalAlloc_dealloc(k)
    \/ \E k \in BlockIds : Allocator_deallocate(k)
    \/ force_gc

AdapterSpec == Init /\ [][AdapterNext]_vars


(* ============================== claims ================================= *)
FromValue(b) == Allocated(b) /\ heap[b].off = 0
FromLayout(b) == Allocated(b) /\ heap[b].off # 0
Registrations(b) == {e \in fin : BoxAt(e.obj) = b}

C2_SequenceDecisionEqualsElement ==
    \A b \in Boxes :
        (FromValue(b) /\ heap[b].ty[1] = "Vec")
            => (heap[b].regCalls = 1 <=> NeedsFinalizer(Tail(heap[b].ty)))

(* C3: new_from_layout registers no finalizer; assume_init registers one   *)
(* iff the now-known T needs a finalizer, and nothing for a T that does    *)
(* not.                                                                    *)
C3_LazyRegistrationIffNeeded ==
    \A b \in Boxes : FromLayout(b) =>
        /\ ~heap[b].assumed => heap[b].regCalls = 0 /\ Registrations(b) = {}
        /\ heap[b].assumed => (heap[b].regCalls > 0 <=> NeedsFinalizer(heap[b].ty))

(* C4: every callback registered for a box holding a T, by construct-from- *)
(* value or by assume_init, runs exactly T's destructor when it fires.     *)
C4_CallbackRunsDestructor ==
    \A b \in Boxes : Allocated(b) =>
        /\ \A e \in Registrations(b) : e.shim = heap[b].ty
        /\ MemNeedsDrop(heap[b].ty) => heap[b].dropped = heap[b].fired

(* C5: after any sequence of public operations, registration has happened  *)
(* at most once for a box and it never has two live registrations.         *)
C5_RegisteredAtMostOnce ==
    \A b \in Boxes : Allocated(b) =>
        /\ heap[b].regCalls <= 1
        /\ Cardinality(Registrations(b)) <= 1

(* C6: the contained value's destructor is run only by the collector       *)
(* through a finalizer callback, only for a box whose finalizer was        *)
(* registered, never by a handle going out of scope or being copied, never *)
(* while the box is reachable from a live handle, and at most once.        *)
DroppedIn(hp, b) == IF hp[b].state = "none" THEN 0 ELSE hp[b].dropped

C6_DestructorState ==
    \A b \in Boxes : Allocated(b) =>
        /\ heap[b].dropped <= 1
        /\ heap[b].dropped <= heap[b].fired
        /\ heap[b].dropped > 0 => heap[b].regCalls > 0 /\ ~Rooted(b)

C6_DestructorStep ==
    \A b \in Boxes : DroppedIn(heap', b) # DroppedIn(heap, b) =>
        /\ DroppedIn(heap', b) = DroppedIn(heap, b) + 1
        /\ handles' = handles /\ raws' = raws
        /\ ~Rooted(b)
        /\ \E e \in fin : e.obj = Base(b) /\ e \notin fin'

C7_NoMutableAccessWhileShared ==
    ~(last.op = "deref_mut" /\ last.access = "mut" /\ last.copies >= 2)

(* C8: Gc::new_from_layout panics, before any allocation, iff the layout's *)
(* size is below T's size or its alignment below T's alignment; otherwise  *)
(* it returns a handle to uninitialized storage.                           *)
C8_LayoutStep ==
    last'.op = "new_from_layout" =>
    \A t \in LifeTypes, l \in Layouts : Gc_new_from_layout(t, l) =>
        /\ last'.panicked <=> (l.size < SizeOf(t) \/ l.align < AlignOf(t))
        /\ last'.panicked => (heap' = heap /\ fin' = fin /\ handles' = handles)
        /\ ~last'.panicked =>
              \E b \in Boxes :
                  /\ ~Allocated(b)
                  /\ heap'[b].state = "live" /\ ~heap'[b].init
                  /\ heap'[b].ty = t /\ heap'[b].size = l.size
                  /\ \E h \in HandleVals :
                        /\ h.kind = "uninit" /\ BoxAt(h.ptr) = b
                        /\ handles'[h] = handles[h] + 1

C8_PanicsIffLayoutTooSmall == [][C8_LayoutStep]_vars

C8_Witness == last.op = "new_from_layout" /\ last.panicked /\ \E b \in Boxes : Allocated(b)

(* C9: downcast of a Gc<dyn Any> succeeds iff the referent's dynamic type  *)
(* is T; it returns a typed handle on success and an opaque one on         *)
(* failure, pointer-equal to the original either way, and leaves the       *)
(* original handle and the box unchanged.                                  *)
C9_DowncastStep ==
    last'.op = "downcast" =>
    \A h \in HandleVals, t \in LifeTypes : Gc_downcast(h, t) =>
        /\ last'.ok <=> (heap[BoxAt(h.ptr)].ty = t)
        /\ last'.out.kind = (IF last'.ok THEN "typed" ELSE "dyn")
        /\ Gc_ptr_eq(last'.out, h)
        /\ handles'[last'.out] > 0
        /\ handles'[h] >= handles[h]
        /\ heap' = heap /\ fin' = fin

C9_DowncastNarrowsOrReturnsOriginal == [][C9_DowncastStep]_vars

C9_Witness ==
    /\ last.op = "downcast" /\ ~last.ok
    /\ last.out.kind = "dyn" /\ Gc_ptr_eq(last.out, last.self)
    /\ handles[last.self] >= 2

(* C10: in both trait impls every allocation class reaches a backend entry *)
(* point with that class's semantics: collectable blocks are scanned and   *)
(* reclaimed, untraceable blocks are not scanned but reclaimed,            *)
(* conservative blocks are never reclaimed, precise blocks carry the       *)
(* descriptor built from the caller's bitmap.                              *)
HandedOut(k) == blocks[k].state # "none"

C10_ClassSemanticsInBothImpls ==
    /\ ~(last.op = "alloc" /\ last.panicked)
    /\ \A k \in BlockIds : HandedOut(k) =>
        LET c == blocks[k].class
            e == blocks[k].entry
        IN /\ c = "collectable" => (ScannedWords(k) = {0} /\ Collectable(e))
           /\ c = "untraceable" => (ScannedWords(k) = {} /\ Collectable(e))
           /\ c = "conservative" =>
                 (~Collectable(e) /\ blocks[k].state # "reclaimed")
           /\ c = "precise" =>
                 blocks[k].desc = GC_make_descriptor(blocks[k].bitmap, blocks[k].len)

(* C10 as amended: the Allocator impl maps collectable and conservative    *)
(* requests to scanned, reclaimable blocks, untraceable requests to        *)
(* unscanned, reclaimable blocks and precise requests to blocks scanned by *)
(* the descriptor built from the caller's bitmap; the GlobalAlloc impl     *)
(* hands out only blocks the collector never reclaims (scanned for         *)
(* collectable and conservative, unscanned for untraceable) and panics on  *)
(* a precise request without allocating.                                   *)
C10_ClassSemanticsPerImpl ==
    /\ last.op = "alloc" =>
          (last.panicked <=> (last.api = "GlobalAlloc" /\ last.class = "precise"))
    /\ \A k \in BlockIds : HandedOut(k) =>
        LET c == blocks[k].class
            e == blocks[k].entry
        IN /\ c \in {"collectable", "conservative"} => ScannedWords(k) = {0}
           /\ c = "untraceable" => ScannedWords(k) = {}
           /\ blocks[k].api = "Allocator" =>
                 /\ Collectable(e)
                 /\ c = "precise" =>
                       /\ blocks[k].desc =
                             GC_make_descriptor(blocks[k].bitmap, blocks[k].len)
                       /\ ScannedWords(k) = blocks[k].desc
           /\ blocks[k].api = "GlobalAlloc" =>
                 /\ ~Collectable(e)
                 /\ blocks[k].state # "reclaimed"
                 /\ c # "precise"
           /\ blocks[k].state = "reclaimed" => ~blocks[k].rooted

C10_Witness ==
    \E k \in BlockIds :
        /\ last.op = "alloc" /\ last.panicked
        /\ blocks[k].state = "reclaimed"
        /\ blocks[k].api = "Allocator" /\ blocks[k].class = "conservative"

(* C11: a null block from any backend allocation entry point is fatal: the *)
(* process aborts at the failing allocation and the null block is never    *)
(* handed on as the result of the allocation.                              *)
C11_AllocationFailureIsFatal ==
    (last.op = "alloc" /\ last.null) => last.result = "abort"

(* C12: every box follows only the lifecycle allocated-uninitialized ->    *)
(* initialized(no-finalizer) | initialized(finalizer-registered) ->        *)
(* reclaimed: no finalizer is registered for a box before its value has    *)
(* been written or asserted initialized, an initialized box never returns  *)
(* to uninitialized, an initialized(no-finalizer) box never becomes        *)
(* finalizer-registered, and a reclaimed box makes no further transition.  *)
(* A box is uninitialized from new_from_layout until assume_init; a box    *)
(* whose handles are all gone may be reclaimed from any of the states.     *)
Phase(hp, b) ==
    IF hp[b].state = "none" THEN "none"
    ELSE IF hp[b].state = "reclaimed" THEN "reclaimed"
    ELSE IF hp[b].off # 0 /\ ~hp[b].assumed THEN "uninitialized"
    ELSE IF hp[b].regCalls > 0 THEN "finalizer-registered"
    ELSE "no-finalizer"

LifecycleEdges ==
    {<<"none", "uninitialized">>, <<"none", "no-finalizer">>,
     <<"none", "finalizer-registered">>,
     <<"uninitialized", "no-finalizer">>,
     <<"uninitialized", "finalizer-registered">>,
     <<"uninitialized", "reclaimed">>,
     <<"no-finalizer", "reclaimed">>,
     <<"finalizer-registered", "reclaimed">>}

C12_LifecycleState ==
    \A b \in Boxes : Allocated(b) =>
        /\ Phase(heap, b) = "uninitialized" =>
              heap[b].regCalls = 0 /\ Registrations(b) = {}
        /\ heap[b].regCalls > 0 => (heap[b].init \/ heap[b].assumed)
        /\ Phase(heap, b) \in {"no-finalizer", "reclaimed"} => Registrations(b) = {}

C12_LifecycleStep ==
    \A b \in Boxes :
        /\ Phase(heap', b) # Phase(heap, b) =>
              <<Phase(heap, b), Phase(heap', b)>> \in LifecycleEdges
        /\ Phase(heap, b) = "reclaimed" => heap'[b] = heap[b]

C13_StorageInsideBlock ==
    \A b \in Boxes : FromLayout(b) =>
        /\ \A h \in HandleVals : (handles[h] > 0 /\ BoxAt(h.ptr) = b) =>
              /\ Base(b) <= h.ptr
              /\ h.ptr + SizeOf(heap[b].ty) <= Base(b) + heap[b].size
        /\ \A e \in Registrations(b) : e.obj = Base(b)

=============================================================================
